---- MODULE Spec2Model ----
(***************************************************************************)
(* State-machine model of two parts of the vortex repository:              *)
(*   - VortexBatchStream (vortex-serde/src/file/reader/mod.rs): the        *)
(*     hand-rolled Init / Decoding / Reading stream over a chunked file;   *)
(*   - RoaringBoolArray (enc-roaring, vortex-roaring boolean/mod.rs).      *)
(* Sequences are 1-based here; row numbers, take indices, projection       *)
(* indices and bitmap positions keep the 0-based values of the code.       *)
(***************************************************************************)
EXTENDS Integers, Sequences, FiniteSets, TLC

\* ------------------------------------------------------------------ bounds
\* most data chunks a column of a modelled file holds
MaxChunks == 2
\* longest take-indices array
MaxTake == 2
\* most items (batches, errors, end-of-stream) a run asks the stream for
MaxPolls == 5
\* longest boolean array, and largest bitmap position, of the roaring model
MaxLen == 3

\* ------------------------------------------------------------ option type
\* Option<T>: None is the empty sequence, Some(v) the sequence holding v
NoneV == <<>>

Some(v) == <<v>>

Unwrap(o) == o[1]

\* ------------------------------------------------------------------ file
\* The two-column file written by tests::test_read_simple.
Names == <<"strings", "numbers">>

Cols == 1..Len(Names)

\* rows a data chunk may hold
ChunkLenChoices == {1, 2}

Strings == <<"ab", "foo", "bar", "baz">>

\* value of column c at global row g (0-based): the test's columns, continued
CellValue(c, g) == IF c = 1 THEN Strings[(g % 4) + 1] ELSE g + 1

RECURSIVE SumLens(_, _)
\* total length of the first j chunks
SumLens(lens, j) == IF j = 0 THEN 0 ELSE SumLens(lens, j - 1) + lens[j]

\* FlatLayout of child i of column c's chunked layout; child 0 is the metadata
\* child, child j >= 1 the j-th data chunk.  col and child tag the byte range
\* with what the writer stored there.
FlatLayout(c, i) ==
    [col |-> c, child |-> i,
     range |-> [begin |-> 64 * ((c - 1) * (MaxChunks + 2) + i),
                end |-> 64 * ((c - 1) * (MaxChunks + 2) + i + 1)]]

\* ChunkedLayout children of a column written with n data chunks
ChunkedChildren(c, n) == [i \in 1..(n + 1) |-> FlatLayout(c, i - 1)]

\* what the bytes of a flat layout decode to, for a file with chunk lengths lens
\* (the metadata child holds one statistic of the column's type)
DecodeBuffer(lens, l) ==
    IF l.child = 0
    THEN IF l.col = 1 THEN <<"stats">> ELSE <<0>>
    ELSE [r \in 1..lens[l.child] |->
            CellValue(l.col, SumLens(lens, l.child - 1) + r - 1)]

\* ------------------------------------------------------------ struct array
StructArray(names, fields) ==
    [names |-> names, fields |-> fields,
     len |-> IF Len(fields) = 0 THEN 0 ELSE Len(fields[1])]

NoArray == [names |-> <<>>, fields |-> <<>>, len |-> 0]

RECURSIVE SelectIdx(_, _)
\* the positions (1-based, ascending) of a boolean mask that are TRUE
SelectIdx(mask, n) ==
    IF n = 0 THEN <<>>
    ELSE IF mask[n] THEN Append(SelectIdx(mask, n - 1), n)
         ELSE SelectIdx(mask, n - 1)

\* gather of one column at 1-based positions
Gather(col, pos) == [k \in 1..Len(pos) |-> col[pos[k]]]

\* -------------------------------------------------------- compute kernels
Ok(v) == [ok |-> TRUE, val |-> v]

Err(e) == [ok |-> FALSE, val |-> e]

RECURSIVE search_sorted_by(_, _, _, _)
\* binary search for the Left insertion point of target in values[left+1..right]
\* (0-based result): an element compares Less when it is below the target and
\* Greater otherwise, so the search never stops early on an equal element.
search_sorted_by(values, target, left, right) ==
    IF left >= right THEN left
    ELSE LET mid == left + ((right - left) \div 2)
         IN IF values[mid + 1] < target
            THEN search_sorted_by(values, target, mid + 1, right)
            ELSE search_sorted_by(values, target, left, mid)

\* search_sorted(indices, value, SearchSortedSide::Left).to_zero_offset_index()
search_sorted(values, target) == search_sorted_by(values, target, 0, Len(values))

\* slice(array, start, stop) of a primitive array
slice(values, start, stop) ==
    IF start > stop \/ stop > Len(values)
    THEN Err("OutOfBounds")
    ELSE Ok(SubSeq(values, start + 1, stop))

\* subtract_scalar(array, scalar): element-wise
subtract_scalar(values, scalar) == [k \in 1..Len(values) |-> values[k] - scalar]

\* take(batch, indices) on a struct array: a gather of every field at the
\* 0-based indices; an index outside the array is an error.
take(batch, indices) ==
    IF \E k \in 1..Len(indices) : indices[k] < 0 \/ indices[k] >= batch.len
    THEN Err("OutOfBounds")
    ELSE Ok([names |-> batch.names,
             fields |-> [c \in 1..Len(batch.fields) |->
                            Gather(batch.fields[c],
                                   [k \in 1..Len(indices) |-> indices[k] + 1])],
             len |-> Len(indices)])

\* and(a, b) on two boolean arrays of one length
and(a, b) == [k \in 1..Len(a) |-> a[k] /\ b[k]]

\* filter(batch, mask): the rows whose mask bit is set, in order
filter(batch, mask) ==
    LET pos == SelectIdx(mask, Len(mask))
    IN [names |-> batch.names,
        fields |-> [c \in 1..Len(batch.fields) |-> Gather(batch.fields[c], pos)],
        len |-> Len(pos)]

\* StructArray::project(indices): the fields at the 0-based column indices
project(batch, indices) ==
    [names |-> [k \in 1..Len(indices) |-> batch.names[indices[k] + 1]],
     fields |-> [k \in 1..Len(indices) |-> batch.fields[indices[k] + 1]],
     len |-> batch.len]

\* pred.evaluate(batch): a predicate {column_ref, op, literal} on a struct array
evaluate(pred, batch) ==
    [k \in 1..batch.len |->
        LET v == batch.fields[pred.col + 1][k]
        IN CASE pred.op = ">" -> v > pred.lit
             [] pred.op = "=" -> v = pred.lit
             [] pred.op = "!=" -> v # pred.lit]

\* ConstantArray::new(true, len)
ConstantTrue(len) == [k \in 1..len |-> TRUE]

\* ------------------------------------------------------------- take_batch
\* faulty variant: the indices of the batch are not shifted by the chunk's offset
take_batch_NoShift(indices, curr_offset, batch) ==
    LET left == search_sorted(indices, curr_offset)
        right == search_sorted(indices, curr_offset + batch.len)
        indices_for_batch == slice(indices, left, right)
    IN [offset |-> curr_offset + batch.len,
        res |-> IF ~indices_for_batch.ok THEN indices_for_batch
                ELSE take(batch, indices_for_batch.val)]

\* VortexBatchStream::take_batch: the result and the advanced current_offset.
take_batch(indices, curr_offset, batch) ==
    LET left == search_sorted(indices, curr_offset)
        right == search_sorted(indices, curr_offset + batch.len)
        indices_for_batch == slice(indices, left, right)
    IN [offset |-> curr_offset + batch.len,
        res |-> IF ~indices_for_batch.ok THEN indices_for_batch
                ELSE take(batch, subtract_scalar(indices_for_batch.val, curr_offset))]

\* ------------------------------------------------------------ stream state
VARIABLES
    file,              \* the file read: chunk lengths and data chunks per column
    layout,            \* StructLayout: per column, the chunked layout's remaining children
    metadata_layouts,  \* Option<Vec<Layout>>
    state,             \* StreamingState: Init | Decoding(layouts) | Reading(f)
    reader,            \* Option<R>: Some("R") while the stream holds the reader
    current_offset,    \* rows of the chunks decoded so far
    take_indices,      \* Option<Array>
    row_filter,        \* RowFilter: the list of predicates
    projection,        \* Option<Projection>
    ret,               \* what the last poll_next returned
    out,               \* the items the stream has yielded, in order
    reads,             \* the reads issued to the reader, in order, each with the
                       \* number of items yielded before it
    panicked           \* a poll panicked: the task is gone

streamVars ==
    <<file, layout, metadata_layouts, state, reader, current_offset, take_indices,
      row_filter, projection, ret, out, reads, panicked>>

\* StructDType of the file: the field types beside Names
DTypes == <<"Utf8", "U32">>

\* StreamingState
StateInit == [tag |-> "Init", layouts |-> <<>>, f |-> NoneV]

StateDecoding(layouts) == [tag |-> "Decoding", layouts |-> layouts, f |-> NoneV]

StateReading(f) == [tag |-> "Reading", layouts |-> <<>>, f |-> Some(f)]

ColumnInfo(name, dtype, l) == [name |-> name, dtype |-> dtype, layout |-> l]

\* the boxed future built in the Decoding arm: the column infos it owns, the
\* reads issued and completed so far, and whether it has returned Ready
StreamStateFuture(layouts) ==
    [layouts |-> layouts, issued |-> 0, done |-> 0, completed |-> FALSE]

\* what a poll returns; for a batch, how it was made
Item(kind) ==
    [kind |-> kind, err |-> "", batch |-> NoArray, decoded |-> NoArray,
     taken |-> NoArray, evals |-> <<>>, srcs |-> <<>>]

\* the fields of the stream a poll changes
Self ==
    [layout |-> layout, metadata_layouts |-> metadata_layouts, state |-> state,
     reader |-> reader, current_offset |-> current_offset]

Min(S) == CHOOSE x \in S : \A y \in S : x <= y

\* what the reader and the decoder do during one poll: k more reads complete,
\* the read after them fails (fail), buffer number bad does not decode (0: none)
IoChoices == [k : 0..Len(Names), fail : BOOLEAN, bad : 0..Len(Names)]

\* ---------------------------------------------------------------- the arms
\* StreamingState::Init arm, given whether the metadata layouts are still to be
\* popped (first) and what a column without a next layout makes the poll return
InitArmWith(s, first, exhausted) ==
    LET l1 == IF first THEN [c \in Cols |-> Tail(s.layout[c])] ELSE s.layout
        m1 == IF first THEN Some([c \in Cols |-> Head(s.layout[c])])
              ELSE s.metadata_layouts
        empty == {c \in Cols : l1[c] = <<>>}
        stop == IF empty = {} THEN 0 ELSE Min(empty)
        l2 == [c \in Cols |-> IF stop = 0 \/ c < stop THEN Tail(l1[c]) ELSE l1[c]]
        infos == [c \in Cols |-> ColumnInfo(Names[c], DTypes[c], Head(l1[c]))]
    IN IF first /\ \E c \in Cols : s.layout[c] = <<>>
       THEN [s |-> s, ret |-> Item("Panic"), reads |-> <<>>, valid |-> TRUE]
       ELSE IF stop # 0
       THEN [s |-> [s EXCEPT !.layout = l2, !.metadata_layouts = m1],
             ret |-> Item(exhausted), reads |-> <<>>, valid |-> TRUE]
       ELSE [s |-> [s EXCEPT !.layout = l2, !.metadata_layouts = m1,
                             !.state = StateDecoding(infos)],
             ret |-> Item("Continue"), reads |-> <<>>, valid |-> TRUE]

\* faulty variant: the metadata child is never set aside
InitArm_KeepsMetadata(s) == InitArmWith(s, FALSE, "Eos")

\* faulty variant: pop_front().unwrap() on an exhausted column
InitArm_Unwraps(s) == InitArmWith(s, s.metadata_layouts = NoneV, "Panic")

\* StreamingState::Init arm
InitArm(s) == InitArmWith(s, s.metadata_layouts = NoneV, "Eos")

\* faulty variant: the poll suspends once the read future is built
DecodingArm_Suspends(s) ==
    IF s.reader = NoneV
    THEN [s |-> s, ret |-> [Item("Panic") EXCEPT !.err = "Reader should be here"],
          reads |-> <<>>, valid |-> TRUE]
    ELSE [s |-> [s EXCEPT !.reader = NoneV,
                          !.state = StateReading(StreamStateFuture(s.state.layouts))],
          ret |-> Item("Pending"), reads |-> <<>>, valid |-> TRUE]

\* StreamingState::Decoding arm
DecodingArm(s) ==
    IF s.reader = NoneV
    THEN [s |-> s, ret |-> [Item("Panic") EXCEPT !.err = "Reader should be here"],
          reads |-> <<>>, valid |-> TRUE]
    ELSE [s |-> [s EXCEPT !.reader = NoneV,
                          !.state = StateReading(StreamStateFuture(s.state.layouts))],
          ret |-> Item("Continue"), reads |-> <<>>, valid |-> TRUE]

\* faulty variant: current_predicate is overwritten by the last predicate's bitmap
Predicate_LastOnly(filters, s, k) ==
    IF k = 0 THEN ConstantTrue(s.len) ELSE evaluate(filters[k], s)

RECURSIVE Predicate(_, _, _)
\* current_predicate after the first k predicates of the row filter
Predicate(filters, s, k) ==
    IF k = 0 THEN ConstantTrue(s.len)
    ELSE and(Predicate(filters, s, k - 1), evaluate(filters[k], s))

\* faulty variant: the Ok arm does not put the reader back
Assemble_DropsReader(s, f, io) ==
    LET n == Len(f.layouts)
        s1 == [s EXCEPT !.state = StateReading([f EXCEPT !.issued = n, !.done = n,
                                                         !.completed = TRUE])]
        decodedTo == IF io.bad = 0 THEN n ELSE io.bad
        srcs == [c \in 1..decodedTo |-> f.layouts[c].layout]
        arr == StructArray([c \in 1..n |-> f.layouts[c].name],
                           [c \in 1..n |-> DecodeBuffer(file.lens, f.layouts[c].layout)])
        tb == take_batch(Unwrap(take_indices), s.current_offset, arr)
        s2 == IF take_indices = NoneV THEN s1
              ELSE [s1 EXCEPT !.current_offset = tb.offset]
        taken == IF take_indices = NoneV THEN arr ELSE tb.res.val
        filtered == filter(taken, Predicate(row_filter, taken, Len(row_filter)))
        projected == IF projection = NoneV THEN filtered
                     ELSE project(filtered, Unwrap(projection))
    IN IF io.bad # 0
       THEN [s |-> s1, ret |-> [Item("Err") EXCEPT !.err = "Decode", !.srcs = srcs]]
       ELSE IF take_indices # NoneV /\ ~tb.res.ok
       THEN [s |-> s2, ret |-> [Item("Err") EXCEPT !.err = tb.res.val, !.srcs = srcs,
                                                  !.decoded = arr]]
       ELSE [s |-> [s2 EXCEPT !.state = StateInit],
             ret |-> [Item("Batch") EXCEPT
                        !.batch = projected, !.decoded = arr, !.taken = taken,
                        !.srcs = srcs,
                        !.evals = [k \in 1..Len(row_filter) |->
                                     [pred |-> row_filter[k], names |-> taken.names,
                                      len |-> taken.len]]]]

\* the Ok arm of a completed read: decode, take, filter, project
Assemble(s, f, io) ==
    LET n == Len(f.layouts)
        s1 == [s EXCEPT !.reader = Some("R"),
                        !.state = StateReading([f EXCEPT !.issued = n, !.done = n,
                                                         !.completed = TRUE])]
        decodedTo == IF io.bad = 0 THEN n ELSE io.bad
        srcs == [c \in 1..decodedTo |-> f.layouts[c].layout]
        arr == StructArray([c \in 1..n |-> f.layouts[c].name],
                           [c \in 1..n |-> DecodeBuffer(file.lens, f.layouts[c].layout)])
        tb == take_batch(Unwrap(take_indices), s.current_offset, arr)
        s2 == IF take_indices = NoneV THEN s1
              ELSE [s1 EXCEPT !.current_offset = tb.offset]
        taken == IF take_indices = NoneV THEN arr ELSE tb.res.val
        filtered == filter(taken, Predicate(row_filter, taken, Len(row_filter)))
        projected == IF projection = NoneV THEN filtered
                     ELSE project(filtered, Unwrap(projection))
    IN IF io.bad # 0
       THEN [s |-> s1, ret |-> [Item("Err") EXCEPT !.err = "Decode", !.srcs = srcs]]
       ELSE IF take_indices # NoneV /\ ~tb.res.ok
       THEN [s |-> s2, ret |-> [Item("Err") EXCEPT !.err = tb.res.val, !.srcs = srcs,
                                                  !.decoded = arr]]
       ELSE [s |-> [s2 EXCEPT !.state = StateInit],
             ret |-> [Item("Batch") EXCEPT
                        !.batch = projected, !.decoded = arr, !.taken = taken,
                        !.srcs = srcs,
                        !.evals = [k \in 1..Len(row_filter) |->
                                     [pred |-> row_filter[k], names |-> taken.names,
                                      len |-> taken.len]]]]

\* faulty variant: a poll of the pending future issues its outstanding read again
ReadingArm_Reissues(s, io) ==
    LET f == Unwrap(s.state.f)
        n == Len(f.layouts)
        done == f.done + io.k
        issued == IF done < n THEN done + 1 ELSE n
        new == [k \in 1..(issued - f.done) |-> f.layouts[f.done + k].layout]
        valid == done <= n /\ (io.fail => done < n)
    IN IF f.completed
       THEN [s |-> s, ret |-> Item("Panic"), reads |-> <<>>, valid |-> TRUE]
       ELSE IF ~valid
       THEN [s |-> s, ret |-> Item("Pending"), reads |-> <<>>, valid |-> FALSE]
       ELSE IF io.fail
       THEN [s |-> [s EXCEPT !.state = StateReading(
                        [f EXCEPT !.issued = issued, !.done = done, !.completed = TRUE])],
             ret |-> [Item("Err") EXCEPT !.err = "Io"], reads |-> new, valid |-> TRUE]
       ELSE IF done < n
       THEN [s |-> [s EXCEPT !.state = StateReading(
                        [f EXCEPT !.issued = issued, !.done = done])],
             ret |-> Item("Pending"), reads |-> new, valid |-> TRUE]
       ELSE LET a == Assemble(s, f, io)
            IN [s |-> a.s, ret |-> a.ret, reads |-> new, valid |-> TRUE]

\* StreamingState::Reading arm: one poll of the future, then its result
ReadingArm(s, io) ==
    LET f == Unwrap(s.state.f)
        n == Len(f.layouts)
        done == f.done + io.k
        issued == IF done < n THEN done + 1 ELSE n
        new == [k \in 1..(issued - f.issued) |-> f.layouts[f.issued + k].layout]
        valid == done <= n /\ (io.fail => done < n)
    IN IF f.completed
       THEN [s |-> s, ret |-> Item("Panic"), reads |-> <<>>, valid |-> TRUE]
       ELSE IF ~valid
       THEN [s |-> s, ret |-> Item("Pending"), reads |-> <<>>, valid |-> FALSE]
       ELSE IF io.fail
       THEN [s |-> [s EXCEPT !.state = StateReading(
                        [f EXCEPT !.issued = issued, !.done = done, !.completed = TRUE])],
             ret |-> [Item("Err") EXCEPT !.err = "Io"], reads |-> new, valid |-> TRUE]
       ELSE IF done < n
       THEN [s |-> [s EXCEPT !.state = StateReading(
                        [f EXCEPT !.issued = issued, !.done = done])],
             ret |-> Item("Pending"), reads |-> new, valid |-> TRUE]
       ELSE LET a == Assemble(s, f, io)
            IN [s |-> a.s, ret |-> a.ret, reads |-> new, valid |-> TRUE]

RECURSIVE poll_next(_, _, _)
\* VortexBatchStream::poll_next: the loop over the arms until one returns;
\* rd collects the reads issued on the way
poll_next(s, io, rd) ==
    LET r == CASE s.state.tag = "Init" -> InitArm(s)
               [] s.state.tag = "Decoding" -> DecodingArm(s)
               [] s.state.tag = "Reading" -> ReadingArm(s, io)
    IN IF r.ret.kind = "Continue" THEN poll_next(r.s, io, rd \o r.reads)
       ELSE [r EXCEPT !.reads = rd \o r.reads]

\* ------------------------------------------------------- RoaringBoolArray
VARIABLES
    rb,      \* the RoaringBoolArray the caller holds, once it has one (an Option)
    rbOp,    \* the last operation called and its arguments
    rbOut,   \* what that operation returned
    rbFrom   \* Some([self, a, b]) when rb is the slice [a, b) of the array self

roaringVars == <<rb, rbOp, rbOut, rbFrom>>

\* ALPArray
VARIABLES
    alp,     \* the ALPArray the caller holds, once it has one (an Option)
    alpIn,   \* Some(x) when alp was encoded from the primitive array x
    alpOp,   \* the last ALP operation called and its arguments
    alpOut   \* what that operation returned

alpVars == <<alp, alpIn, alpOp, alpOut>>

\* compute::take
VARIABLES
    takeOp,  \* the last call of the take kernel: receiver and indices
    takeOut  \* what it returned, and the steps it went through

takeVars == <<takeOp, takeOut>>

\* VortexBatchReaderBuilder::read_footer
VARIABLES
    builder,     \* the builder's file: its length, its trailer and its len option
    footerOut,   \* what read_footer returned
    footerReads  \* the read_at_into requests issued to the reader, in order

footerVars == <<builder, footerOut, footerReads>>

kernelVars == <<alpVars, takeVars, footerVars>>

vars == <<streamVars, roaringVars, kernelVars>>

\* `x as u32`
AsU32(x) == IF x < 65536 THEN x ELSE x % (65536 * 65536)

\* Bitmap::from_range(start..stop)
from_range(start, stop) == {x \in start..(stop - 1) : TRUE}

\* Bitmap::and
bitmap_and(a, b) == a \cap b

\* Bitmap::add_offset: positions shifted out of the u32 range are dropped
add_offset(bitmap, offset) ==
    {x + offset : x \in {y \in bitmap : y + offset >= 0 /\ AsU32(y + offset) = y + offset}}

RECURSIVE SortedSeq(_)
\* Bitmap::to_vec: the positions in ascending order
SortedSeq(S) ==
    IF S = {} THEN <<>>
    ELSE LET m == Min(S) IN <<m>> \o SortedSeq(S \ {m})

\* StatsSet::new()
EmptyStats == {}

\* RoaringBoolArray::new
rb_new(bitmap, length) == [bitmap |-> bitmap, length |-> length, stats |-> EmptyStats]

\* RoaringBoolArray::dtype
rb_dtype(self) == [type |-> "Bool", nullability |-> "NonNullable"]

\* compress::roaring_encode: the set positions of the bool array, and its length
roaring_encode(values) ==
    rb_new({i - 1 : i \in {k \in 1..Len(values) : values[k]}}, Len(values))

\* RoaringBoolArray::encode
rb_encode(array) ==
    IF array.kind = "Bool" THEN Ok(roaring_encode(array.values))
    ELSE Err("InvalidEncoding")

\* check_index_bounds
check_index_bounds(self, index) == index < self.length

\* check_slice_bounds
check_slice_bounds(self, start, stop) == start <= stop /\ stop <= self.length

\* faulty variant: the bit after the index is tested
rb_scalar_at_OffByOne(self, index) ==
    IF ~(index < self.length) THEN Err("OutOfBounds")
    ELSE Ok((index + 1) \in self.bitmap)

\* RoaringBoolArray::scalar_at
rb_scalar_at(self, index) ==
    IF ~check_index_bounds(self, index) THEN Err("OutOfBounds")
    ELSE Ok(AsU32(index) \in self.bitmap)

\* faulty variant: the range mask takes the stop position in
rb_slice_Inclusive(self, start, stop) ==
    IF ~(start <= stop /\ stop <= self.length) THEN Err("OutOfBounds")
    ELSE Ok([bitmap |-> {x - start : x \in self.bitmap \cap (start..stop)},
             length |-> stop - start, stats |-> {}])

\* faulty variant: the masked bitmap is not shifted back by start
rb_slice_NoShift(self, start, stop) ==
    IF ~(start <= stop /\ stop <= self.length) THEN Err("OutOfBounds")
    ELSE Ok([bitmap |-> self.bitmap \cap (start..(stop - 1)),
             length |-> stop - start, stats |-> {}])

\* RoaringBoolArray::slice
rb_slice(self, start, stop) ==
    IF ~check_slice_bounds(self, start, stop) THEN Err("OutOfBounds")
    ELSE LET slice_bitmap == from_range(AsU32(start), AsU32(stop))
             bitmap == add_offset(bitmap_and(self.bitmap, slice_bitmap), -start)
         IN Ok([bitmap |-> bitmap, length |-> stop - start, stats |-> EmptyStats])

\* Stats::get_or_compute of the true count: cached in the array's shared stats set
rb_compute_stats(self) ==
    [self EXCEPT !.stats = self.stats \cup {<<"TrueCount", Cardinality(self.bitmap)>>}]

\* inputs of the roaring operations
Bitmaps == SUBSET (0..MaxLen)

Lengths == 0..MaxLen

InputArrays ==
    [kind : {"Bool"}, values : UNION {[1..n -> BOOLEAN] : n \in Lengths}]
      \cup [kind : {"Primitive"}, values : {<<>>, <<1>>}]

NoOp == [op |-> "none", self |-> NoneV, a |-> 0, b |-> 0, input |-> NoneV]

\* A behaviour follows one array: it is constructed (new, encode), then read,
\* sliced and sliced again.
RbNew ==
    /\ rb = NoneV
    /\ \E bitmap \in Bitmaps, length \in Lengths :
         /\ rb' = Some(rb_new(bitmap, length))
         /\ rbOp' = [NoOp EXCEPT !.op = "new", !.input = Some([bitmap |-> bitmap,
                                                              length |-> length])]
         /\ rbOut' = Ok(rb_new(bitmap, length))
    /\ rbFrom' = NoneV
    /\ UNCHANGED <<streamVars, kernelVars>>

RbEncode ==
    /\ rb = NoneV
    /\ \E x \in InputArrays :
         /\ rbOp' = [NoOp EXCEPT !.op = "encode", !.input = Some(x)]
         /\ rbOut' = rb_encode(x)
         /\ rb' = IF rb_encode(x).ok THEN Some(rb_encode(x).val) ELSE rb
         /\ rbFrom' = IF rb_encode(x).ok THEN NoneV ELSE rbFrom
    /\ UNCHANGED <<streamVars, kernelVars>>

RbScalarAt ==
    /\ rb # NoneV
    /\ \E i \in 0..(MaxLen + 1) :
         /\ rbOp' = [NoOp EXCEPT !.op = "scalar_at", !.self = rb, !.a = i]
         /\ rbOut' = rb_scalar_at(Unwrap(rb), i)
    /\ UNCHANGED <<rb, rbFrom, streamVars, kernelVars>>

RbSlice ==
    /\ rb # NoneV
    /\ \E a \in 0..(MaxLen + 1), b \in 0..(MaxLen + 1) :
         /\ rbOp' = [NoOp EXCEPT !.op = "slice", !.self = rb, !.a = a, !.b = b]
         /\ rbOut' = rb_slice(Unwrap(rb), a, b)
    /\ UNCHANGED <<rb, rbFrom, streamVars, kernelVars>>

\* the caller drops the array it sliced and goes on with the slice
RbKeepSlice ==
    /\ rbOp.op = "slice" /\ rbOut.ok
    /\ rb' = Some(rbOut.val)
    /\ rbFrom' = Some([self |-> Unwrap(rbOp.self), a |-> rbOp.a, b |-> rbOp.b])
    /\ rbOp' = [NoOp EXCEPT !.op = "keep"]
    /\ UNCHANGED <<rbOut, streamVars, kernelVars>>

RbStats ==
    /\ rb # NoneV
    /\ rb' = Some(rb_compute_stats(Unwrap(rb)))
    /\ rbOp' = [NoOp EXCEPT !.op = "stats", !.self = rb]
    /\ UNCHANGED <<rbOut, rbFrom, streamVars, kernelVars>>

RoaringIdle == rb = NoneV /\ rbOp = NoOp /\ rbOut = Err("NotCalled") /\ rbFrom = NoneV

\* -------------------------------------------------------------------- ALP
\* largest exponent of the search grid: e and f range over 0..MaxExp
MaxExp == 2

\* longest primitive array given to the ALP encoder
MaxAlpLen == 2

RECURSIVE Pow10(_)
Pow10(k) == IF k = 0 THEN 1 ELSE 10 * Pow10(k - 1)

\* The elements of primitive arrays. An integer is kind "int". A float is a
\* decimal of MaxExp fractional digits (kind "dec": n * 10^-MaxExp), a
\* magnitude beyond every integer type (kind "big": 1e30), or the float whose
\* bit pattern is that of the non-zero integer n (kind "bits").
IntV(i) == [kind |-> "int", n |-> i]

IntSeq(ints) == [k \in 1..Len(ints) |-> IntV(ints[k])]

Dec(n, digits) == [kind |-> "dec", n |-> n * Pow10(MaxExp - digits)]

Big == [kind |-> "big", n |-> 0]

\* Buffer::typed_data::<T>() of a buffer that holds T::EncInt values: each
\* integer's bits read as a float (the bits of 0 are 0.0)
typed_data_as_float(ints) ==
    [k \in 1..Len(ints) |->
        IF ints[k].n = 0 THEN Dec(0, 0) ELSE [kind |-> "bits", n |-> ints[k].n]]

\* T::EncInt, and the bit width of T
EncInt(ptype) == IF ptype = "F32" THEN "I32" ELSE "I64"

FloatOf(ptype) == IF ptype = "I32" THEN "F32" ELSE "F64"

Width(ptype) ==
    CASE ptype = "I8" -> 8
      [] ptype = "I16" -> 16
      [] ptype \in {"F32", "I32", "U32"} -> 32
      [] OTHER -> 64

\* ALPExponents
Exponents == [e : 0..MaxExp, f : 0..MaxExp]

\* round(value * 10^e * 10^-f), halves rounded up
EncodeSingle(v, exp) ==
    LET d == Pow10(MaxExp + exp.f - exp.e)
    IN (2 * v.n + d) \div (2 * d)

\* encoded * 10^f * 10^-e
DecodeSingle(i, exp) == [kind |-> "dec", n |-> i * Pow10(MaxExp + exp.f - exp.e)]

\* a value whose integer form overflows or whose round trip differs from it
IsException(v, exp) ==
    \/ v.kind # "dec"
    \/ DecodeSingle(EncodeSingle(v, exp), exp) # v

\* codecz::alp::encode_with: ALPEncoded for the given exponents
codec_encode_with(values, exp) ==
    [values |-> [k \in 1..Len(values) |->
                   IF IsException(values[k], exp) THEN IntV(0)
                   ELSE IntV(EncodeSingle(values[k], exp))],
     exponents |-> exp,
     exceptions_idx |-> {k - 1 : k \in {j \in 1..Len(values) : IsException(values[j], exp)}},
     num_exceptions |-> Cardinality({j \in 1..Len(values) : IsException(values[j], exp)})]

RECURSIVE BitWidth(_)
BitWidth(n) == IF n = 0 THEN 0 ELSE 1 + BitWidth(n \div 2)

\* estimated_bits(encoded_ints) + exception_overhead(count) of an ALPEncoded
CostOf(enc, ptype) ==
    LET n == Len(enc.values)
        hi == {k \in 1..n : \A j \in 1..n : enc.values[j].n <= enc.values[k].n}
        lo == {k \in 1..n : \A j \in 1..n : enc.values[k].n <= enc.values[j].n}
    IN (IF n = 0 THEN 0
        ELSE n * BitWidth(enc.values[Min(hi)].n - enc.values[Min(lo)].n))
         + enc.num_exceptions * (Width(ptype) + 32)

\* the cost of encoding the values with the exponents exp
Cost(values, exp, ptype) ==
    CHOOSE c \in {CostOf(enc, ptype) : enc \in {codec_encode_with(values, exp)}} : TRUE

\* the i-th pair of the grid, by e and then by f
GridPair(i) == [e |-> i \div (MaxExp + 1), f |-> i % (MaxExp + 1)]

RECURSIVE SearchFrom(_, _, _, _, _)
\* the scan of the grid from its i-th pair on, given the best pair so far and
\* its cost: a pair replaces the best one only when it is strictly cheaper
SearchFrom(values, ptype, i, best, best_cost) ==
    IF i = (MaxExp + 1) * (MaxExp + 1) THEN best
    ELSE CHOOSE r \in {IF c < best_cost
                        THEN SearchFrom(values, ptype, i + 1, GridPair(i), c)
                        ELSE SearchFrom(values, ptype, i + 1, best, best_cost) :
                        c \in {Cost(values, GridPair(i), ptype)}} : TRUE

\* the search of the grid: the cheapest pair, then the lower e, then the lower f
find_exponents(values, ptype) ==
    SearchFrom(values, ptype, 1, GridPair(0), Cost(values, GridPair(0), ptype))

\* codecz::alp::encode: ALPEncoded for the exponents the search finds
codec_encode(values, ptype) == codec_encode_with(values, find_exponents(values, ptype))

\* codecz::alp::decode
codec_decode(ints, exp) == [k \in 1..Len(ints) |-> DecodeSingle(ints[k].n, exp)]

\* codecz::utils::into_u32_vec: the exception positions in ascending order
into_u32_vec(exceptions_idx, num_exceptions) ==
    SubSeq(SortedSeq(exceptions_idx), 1, num_exceptions)

\* codecz::utils::gather_patches
gather_patches(data, indices) == [k \in 1..Len(indices) |-> data[indices[k] + 1]]

\* ------------------------------------------------------------- enc arrays
\* PrimitiveArray::from_nullable_in / from_vec_in (validity None)
PrimitiveArray(ptype, values, validity) ==
    [kind |-> "Primitive", ptype |-> ptype, values |-> values, validity |-> validity]

\* SparseArray::new(indices, values, len)
SparseArray(indices, values, len) ==
    [kind |-> "Sparse", indices |-> indices, values |-> values, len |-> len]

BoolArray(values) == [kind |-> "Bool", values |-> values]

RECURSIVE array_dtype(_)
\* Array::dtype
array_dtype(a) ==
    CASE a.kind = "Primitive" ->
           [type |-> IF a.ptype \in {"F32", "F64"} THEN "Float" ELSE "Int",
            width |-> Width(a.ptype),
            nullable |-> a.validity # NoneV]
      [] a.kind = "Sparse" -> array_dtype(a.values)
      [] a.kind = "ALP" -> a.dtype
      [] a.kind = "Bool" -> [type |-> "Bool", width |-> 1, nullable |-> FALSE]

\* Array::len
array_len(a) ==
    CASE a.kind = "Primitive" -> Len(a.values)
      [] a.kind = "Sparse" -> a.len
      [] a.kind = "Bool" -> Len(a.values)

\* Array::slice of the arrays that are children of an ALPArray
array_slice(a, start, stop) ==
    IF start > stop \/ stop > array_len(a) THEN Err("OutOfBounds")
    ELSE CASE a.kind = "Primitive" ->
                Ok(PrimitiveArray(a.ptype, SubSeq(a.values, start + 1, stop),
                                  IF a.validity = NoneV THEN NoneV
                                  ELSE Some(SubSeq(Unwrap(a.validity), start + 1, stop))))
           [] a.kind = "Sparse" ->
                LET keep == SelectIdx([k \in 1..Len(a.indices.values) |->
                                         /\ start <= a.indices.values[k].n
                                         /\ a.indices.values[k].n < stop],
                                      Len(a.indices.values))
                IN Ok(SparseArray(
                        PrimitiveArray("U32",
                                       [k \in 1..Len(keep) |->
                                          IntV(a.indices.values[keep[k]].n - start)],
                                       NoneV),
                        PrimitiveArray(a.values.ptype, Gather(a.values.values, keep),
                                       NoneV),
                        stop - start))
           [] a.kind = "Bool" -> Ok(BoolArray(SubSeq(a.values, start + 1, stop)))

\* ---------------------------------------------------------------- ALPArray
\* ALPArray::try_new
alp_try_new(encoded, exponents, patches) ==
    LET d == array_dtype(encoded)
    IN IF d.type = "Int" /\ d.width \in {32, 64}
       THEN Ok([kind |-> "ALP", encoded |-> encoded, exponents |-> exponents,
                patches |-> patches,
                dtype |-> [type |-> "Float", width |-> d.width, nullable |-> d.nullable],
                stats |-> EmptyStats])
       ELSE Err("InvalidDType")

\* ALPArray::new: try_new(..).unwrap()
alp_new(encoded, exponents, patches) ==
    LET r == alp_try_new(encoded, exponents, patches)
    IN IF r.ok THEN r ELSE Err("Panic")

\* alp_encode_primitive: `values` is rebound to the encoded array before the
\* patches are gathered, so they are gathered from the encoded buffer read as T.
\* codec names the codec entry point that was called.
alp_encode_primitive(values, validity, exponents, ptype) ==
    LET enc == IF exponents = NoneV THEN codec_encode(values, ptype)
               ELSE codec_encode_with(values, Unwrap(exponents))
        encoded == PrimitiveArray(EncInt(ptype), enc.values, validity)
        patch_indices == into_u32_vec(enc.exceptions_idx, enc.num_exceptions)
        patch_values == gather_patches(typed_data_as_float(encoded.values), patch_indices)
    IN [encoded |-> encoded, exponents |-> enc.exponents,
        patches |-> IF enc.num_exceptions = 0 THEN NoneV
                    ELSE Some(SparseArray(
                           PrimitiveArray("U32", IntSeq(patch_indices), NoneV),
                           PrimitiveArray(ptype, patch_values, NoneV),
                           array_len(encoded))),
        codec |-> IF exponents = NoneV THEN "encode" ELSE "encode_with"]

\* alp_encode_parts: the full exponent search
alp_encode_parts(parray) ==
    IF parray.ptype \in {"F32", "F64"}
    THEN Ok(alp_encode_primitive(parray.values, parray.validity, NoneV, parray.ptype))
    ELSE Err("Panic")

\* alp_encode_like_parts: the exponents of the sample
alp_encode_like_parts(parray, sample) ==
    IF parray.ptype \in {"F32", "F64"}
    THEN Ok(alp_encode_primitive(parray.values, parray.validity,
                                 Some(sample.exponents), parray.ptype))
    ELSE Err("Panic")

\* alp_encode
alp_encode(parray) ==
    LET parts == alp_encode_parts(parray)
    IN IF ~parts.ok THEN parts
       ELSE alp_new(parts.val.encoded, parts.val.exponents, parts.val.patches)

\* ALPArray::encode
alp_array_encode(array) ==
    IF array.kind = "Primitive" THEN alp_encode(array) ELSE Err("InvalidEncoding")

\* alp_decode: the decoded floats, without validity
alp_decode(parray, exp) ==
    IF parray.ptype \in {"I32", "I64"}
    THEN Ok(PrimitiveArray(FloatOf(parray.ptype), codec_decode(parray.values, exp), NoneV))
    ELSE Err("Panic")

\* the overlay of a sparse patches array on decoded values, by index
overlay_patches(values, patches) ==
    [k \in 1..Len(values) |->
        IF \E j \in 1..Len(patches.indices.values) : patches.indices.values[j].n = k - 1
        THEN patches.values.values[
               CHOOSE j \in 1..Len(patches.indices.values) :
                  patches.indices.values[j].n = k - 1]
        ELSE values[k]]

\* decoding of an ALPArray: alp_decode of the encoded child, then the patches
alp_array_decode(self) ==
    LET d == alp_decode(self.encoded, self.exponents)
    IN IF ~d.ok \/ self.patches = NoneV THEN d
       ELSE Ok([d.val EXCEPT !.values = overlay_patches(d.val.values, Unwrap(self.patches))])

\* faulty variant: the patches are passed on as they are
alp_slice_KeepsPatches(self, start, stop) ==
    LET e == array_slice(self.encoded, start, stop)
    IN IF ~e.ok THEN e
       ELSE alp_try_new(e.val, self.exponents, self.patches)

\* ALPArray::slice
alp_slice(self, start, stop) ==
    LET e == array_slice(self.encoded, start, stop)
        p == IF self.patches = NoneV THEN Ok(NoneV)
             ELSE LET r == array_slice(Unwrap(self.patches), start, stop)
                  IN IF r.ok THEN Ok(Some(r.val)) ELSE r
    IN IF ~e.ok THEN e
       ELSE IF ~p.ok THEN p
       ELSE alp_try_new(e.val, self.exponents, p.val)

\* CompressCtx::next_level().compress(array, like): the planner's choice for a
\* child, here the child left as it is
compress(array, like) == array

\* faulty variant: the sample's exponents are ignored
alp_compressor_Searches(array, like) ==
    LET like_alp == IF like # NoneV /\ Unwrap(like).kind = "ALP" THEN like ELSE NoneV
        parts == IF array.kind # "Primitive" THEN Err("Panic")
                 ELSE alp_encode_parts(array)
        encoded_like == IF like_alp = NoneV THEN NoneV ELSE Some(Unwrap(like_alp).encoded)
        patches_like == IF like_alp = NoneV THEN NoneV ELSE Unwrap(like_alp).patches
    IN IF ~parts.ok THEN [res |-> parts, codec |-> "none", calls |-> <<>>]
       ELSE [res |-> alp_new(compress(parts.val.encoded, encoded_like),
                             parts.val.exponents,
                             IF parts.val.patches = NoneV THEN NoneV
                             ELSE Some(compress(Unwrap(parts.val.patches), patches_like))),
             codec |-> parts.val.codec,
             calls |-> <<[array |-> parts.val.encoded, like |-> encoded_like]>> \o
                       (IF parts.val.patches = NoneV THEN <<>>
                        ELSE <<[array |-> Unwrap(parts.val.patches),
                                like |-> patches_like]>>)]

\* alp_compressor: the array it returns, the codec entry point it used, and
\* the compress calls it made for the children (array and like hint)
alp_compressor(array, like) ==
    LET like_alp == IF like # NoneV /\ Unwrap(like).kind = "ALP" THEN like ELSE NoneV
        parts == IF array.kind # "Primitive" THEN Err("Panic")
                 ELSE IF like_alp # NoneV
                 THEN alp_encode_like_parts(array, Unwrap(like_alp))
                 ELSE alp_encode_parts(array)
        encoded_like == IF like_alp = NoneV THEN NoneV ELSE Some(Unwrap(like_alp).encoded)
        patches_like == IF like_alp = NoneV THEN NoneV ELSE Unwrap(like_alp).patches
    IN IF ~parts.ok THEN [res |-> parts, codec |-> "none", calls |-> <<>>]
       ELSE [res |-> alp_new(compress(parts.val.encoded, encoded_like),
                             parts.val.exponents,
                             IF parts.val.patches = NoneV THEN NoneV
                             ELSE Some(compress(Unwrap(parts.val.patches), patches_like))),
             codec |-> parts.val.codec,
             calls |-> <<[array |-> parts.val.encoded, like |-> encoded_like]>> \o
                       (IF parts.val.patches = NoneV THEN <<>>
                        ELSE <<[array |-> Unwrap(parts.val.patches),
                                like |-> patches_like]>>)]

\* ------------------------------------------------------ ALP: inputs, actions
FloatChoices == {Dec(11, 1), Dec(125, 2), Big}

\* the primitive arrays given to the encoder: floats with or without validity,
\* an integer array and a bool array
AlpInputs ==
    UNION {{PrimitiveArray(pt, v, NoneV)} \cup
             {PrimitiveArray(pt, v, Some(m)) : m \in [1..Len(v) -> BOOLEAN]} :
           pt \in {"F32", "F64"},
           v \in UNION {[1..n -> FloatChoices] : n \in 0..MaxAlpLen}}
      \cup {PrimitiveArray("I32", IntSeq(<<1>>), NoneV), BoolArray(<<TRUE>>)}

\* children handed to try_new
EncodedChoices ==
    {PrimitiveArray(pt, IntSeq(<<1, 2>>), v) :
        pt \in {"I8", "I16", "I32", "I64", "U32"},
        v \in {NoneV, Some(<<TRUE, FALSE>>)}}
      \cup {PrimitiveArray("F32", <<Dec(11, 1), Dec(11, 1)>>, NoneV),
            BoolArray(<<TRUE, FALSE>>)}

PatchesChoices ==
    {NoneV,
     Some(SparseArray(PrimitiveArray("U32", IntSeq(<<1>>), NoneV),
                      PrimitiveArray("F32", <<Dec(125, 2)>>, NoneV), 2)),
     Some(SparseArray(PrimitiveArray("U32", IntSeq(<<0>>), NoneV),
                      PrimitiveArray("F32", <<Big>>, NoneV), 1)),
     Some(SparseArray(PrimitiveArray("U32", IntSeq(<<0>>), NoneV),
                      PrimitiveArray("I32", IntSeq(<<7>>), NoneV), 2)),
     Some(PrimitiveArray("F32", <<Dec(11, 1), Dec(11, 1)>>, NoneV)),
     Some(BoolArray(<<TRUE, FALSE>>))}

AlpNoOp ==
    [op |-> "none", self |-> NoneV, a |-> 0, b |-> 0, input |-> NoneV, like |-> NoneV]

\* A behaviour follows one array: it is constructed (encode, try_new), then
\* sliced, or decoded, or used as the like hint of a compression.
Constructed == alpOp.op \in {"encode", "try_new"} /\ alp # NoneV

AlpEncode ==
    /\ alpOp.op = "none"
    /\ \E x \in AlpInputs :
         \E r \in {alp_array_encode(x)} :
            /\ alpOp' = [AlpNoOp EXCEPT !.op = "encode", !.input = Some(x)]
            /\ alpOut' = r
            /\ alp' = IF r.ok THEN Some(r.val) ELSE alp
            /\ alpIn' = IF r.ok THEN Some(x) ELSE alpIn
    /\ UNCHANGED <<streamVars, roaringVars, takeVars, footerVars>>

AlpTryNew ==
    /\ alpOp.op = "none"
    /\ \E encoded \in EncodedChoices, exponents \in {[e |-> 1, f |-> 0], [e |-> 0, f |-> 0]},
          patches \in PatchesChoices :
         \E r \in {alp_try_new(encoded, exponents, patches)} :
            /\ alpOp' = [AlpNoOp EXCEPT !.op = "try_new",
                            !.input = Some([encoded |-> encoded, exponents |-> exponents,
                                            patches |-> patches])]
            /\ alpOut' = r
            /\ alp' = IF r.ok THEN Some(r.val) ELSE alp
    /\ UNCHANGED <<alpIn, streamVars, roaringVars, takeVars, footerVars>>

AlpSlice ==
    /\ Constructed
    /\ \E a \in 0..(MaxAlpLen + 1), b \in 0..(MaxAlpLen + 1) :
         /\ alpOp' = [AlpNoOp EXCEPT !.op = "slice", !.self = alp, !.a = a, !.b = b]
         /\ alpOut' = alp_slice(Unwrap(alp), a, b)
    /\ UNCHANGED <<alp, alpIn, streamVars, roaringVars, takeVars, footerVars>>

AlpDecode ==
    /\ Constructed /\ alpIn # NoneV
    /\ alpOp' = [AlpNoOp EXCEPT !.op = "decode", !.self = alp]
    /\ alpOut' = alp_array_decode(Unwrap(alp))
    /\ UNCHANGED <<alp, alpIn, streamVars, roaringVars, takeVars, footerVars>>

\* the hints of a compression: before an ALP array exists, none or an array of
\* another encoding; once try_new has made one, that array
LikeChoices ==
    IF alp = NoneV THEN {NoneV, Some(PrimitiveArray("F32", <<Dec(11, 1)>>, NoneV))}
    ELSE {alp}

AlpCompress ==
    /\ alpOp.op = "none" \/ (alpOp.op = "try_new" /\ alp # NoneV)
    /\ \E x \in {y \in AlpInputs : y.kind = "Primitive" /\ y.ptype # "I32"},
          like \in LikeChoices :
         \E r \in {alp_compressor(x, like)} :
            /\ alpOp' = [AlpNoOp EXCEPT !.op = "compress", !.input = Some(x),
                                        !.like = like]
            /\ alpOut' = r
    /\ UNCHANGED <<alp, alpIn, streamVars, roaringVars, takeVars, footerVars>>

AlpIdle == alp = NoneV /\ alpIn = NoneV /\ alpOp = AlpNoOp /\ alpOut = Err("NotCalled")

AlpNext == AlpEncode \/ AlpTryNew \/ AlpSlice \/ AlpDecode \/ AlpCompress

\* ------------------------------------------------------------ compute::take
\* DType::is_int
is_int(dtype) == dtype.type = "Int"

\* DType::is_nullable
is_nullable(dtype) == dtype.nullable

\* faulty variant: the indices are checked after the receiver's kernel was tried
compute_take_ChecksLate(array, indices) ==
    IF array.has_take
    THEN [res |-> array.kernel, steps |-> <<[step |-> "take", on |-> array.encoding]>>]
    ELSE IF ~is_int(indices.dtype) \/ is_nullable(indices.dtype)
    THEN [res |-> Err("InvalidArgument"), steps |-> <<>>]
    ELSE IF ~array.canonical.ok
    THEN [res |-> array.canonical,
          steps |-> <<[step |-> "into_canonical", on |-> array.encoding]>>]
    ELSE IF array.canonical.val.has_take
    THEN [res |-> array.canonical.val.kernel,
          steps |-> <<[step |-> "into_canonical", on |-> array.encoding],
                      [step |-> "take", on |-> array.canonical.val.encoding]>>]
    ELSE [res |-> Err("NotImplemented"),
          steps |-> <<[step |-> "into_canonical", on |-> array.encoding]>>]

\* faulty variant: an encoding without a kernel is NotImplemented at once
compute_take_NoFallback(array, indices) ==
    IF ~is_int(indices.dtype) \/ is_nullable(indices.dtype)
    THEN [res |-> Err("InvalidArgument"), steps |-> <<>>]
    ELSE IF array.has_take
    THEN [res |-> array.kernel, steps |-> <<[step |-> "take", on |-> array.encoding]>>]
    ELSE [res |-> Err("NotImplemented"), steps |-> <<>>]

\* compute::take: what it returns, and the kernels and canonicalizations it
\* went through. A receiver is its encoding, whether the encoding has a TakeFn
\* (has_take), what that TakeFn returns for these indices (kernel), and what
\* into_canonical gives (canonical: the canonical array, or an error).
compute_take(array, indices) ==
    IF ~is_int(indices.dtype) \/ is_nullable(indices.dtype)
    THEN [res |-> Err("InvalidArgument"), steps |-> <<>>]
    ELSE IF array.has_take
    THEN [res |-> array.kernel, steps |-> <<[step |-> "take", on |-> array.encoding]>>]
    ELSE IF ~array.canonical.ok
    THEN [res |-> array.canonical,
          steps |-> <<[step |-> "into_canonical", on |-> array.encoding]>>]
    ELSE IF array.canonical.val.has_take
    THEN [res |-> array.canonical.val.kernel,
          steps |-> <<[step |-> "into_canonical", on |-> array.encoding],
                      [step |-> "take", on |-> array.canonical.val.encoding]>>]
    ELSE [res |-> Err("NotImplemented"),
          steps |-> <<[step |-> "into_canonical", on |-> array.encoding]>>]

\* VortexBatchReaderBuilder::with_take_indices: the assertion on the dtype
with_take_indices(array) ==
    IF is_int(array.dtype) THEN Ok(Some(array)) ELSE Err("Panic")

\* what a TakeFn returns: the taken array, or its own error
KernelChoices == {Ok("Taken"), Err("OutOfBounds")}

\* canonical forms: with a TakeFn (primitive) or without one
CanonicalChoices ==
    [encoding : {"vortex.primitive"}, has_take : {TRUE}, kernel : KernelChoices]
      \cup [encoding : {"vortex.ext"}, has_take : {FALSE}, kernel : {Err("Unused")}]

\* receivers: every encoding, with and without its own TakeFn
ReceiverChoices ==
    [encoding : {"vortex.primitive", "vortex.alp", "roaring.bool", "vortex.chunked"},
     has_take : BOOLEAN,
     kernel : KernelChoices,
     canonical : {Ok(c) : c \in CanonicalChoices} \cup {Err("OutOfMemory")}]

IndicesChoices ==
    [dtype : [type : {"Int", "Float", "Bool", "Utf8"}, nullable : BOOLEAN]]

TakeNoOp == [op |-> "none", array |-> NoneV, indices |-> NoneV]

TakeCall ==
    /\ \E array \in ReceiverChoices, indices \in IndicesChoices :
         /\ takeOp' = [op |-> "take", array |-> Some(array), indices |-> Some(indices)]
         /\ takeOut' = compute_take(array, indices)
    /\ UNCHANGED <<streamVars, roaringVars, alpVars, footerVars>>

WithTakeIndices ==
    /\ \E indices \in IndicesChoices :
         /\ takeOp' = [op |-> "with_take_indices", array |-> NoneV,
                       indices |-> Some(indices)]
         /\ takeOut' = [res |-> with_take_indices(indices), steps |-> <<>>]
    /\ UNCHANGED <<streamVars, roaringVars, alpVars, footerVars>>

TakeIdle == takeOp = TakeNoOp /\ takeOut = [res |-> Err("NotCalled"), steps |-> <<>>]

TakeKernelNext == TakeCall \/ WithTakeIndices

\* ------------------------------------------------------------- read_footer
\* VortexBatchReaderBuilder::FOOTER_READ_SIZE
FOOTER_READ_SIZE == 8 * 1024 * 1024

\* VortexBatchReaderBuilder::FOOTER_TRAILER_SIZE
FOOTER_TRAILER_SIZE == 20

\* layouts::reader::footer::FULL_FOOTER_SIZE
FULL_FOOTER_SIZE == 20

\* "VTXF"
MAGIC_BYTES == <<86, 84, 88, 70>>

RECURSIVE to_le_bytes(_, _)
\* u64::to_le_bytes, for the k low bytes
to_le_bytes(v, k) == IF k = 0 THEN <<>> ELSE <<v % 256>> \o to_le_bytes(v \div 256, k - 1)

RECURSIVE from_le_bytes(_)
\* u64::from_le_bytes
from_le_bytes(bytes) ==
    IF bytes = <<>> THEN 0 ELSE Head(bytes) + 256 * from_le_bytes(Tail(bytes))

\* A file is its length and its last bytes (tail: the last 20, or all of a
\* shorter file). The byte at position p of the file, for p within the tail:
FileByte(f, p) == f.tail[p - (f.length - Len(f.tail)) + 1]

\* buf[from..to] of the buffer read at read_offset
BufRange(f, read_offset, from, to) ==
    [k \in 1..(to - from) |-> FileByte(f, read_offset + from + k - 1)]

\* VortexBatchReaderBuilder::len: the caller's length, else the reader's size
builder_len(b) == IF b.len # NoneV THEN Unwrap(b.len) ELSE b.file.length

\* faulty variant: the two offsets are taken from each other's bytes
read_footer_Swapped(b, io_fail) ==
    LET file_length == builder_len(b)
        read_size == Min({FOOTER_READ_SIZE, file_length})
        read_offset == file_length - read_size
        rd == <<[offset |-> read_offset, size |-> read_size]>>
        magic_bytes_loc == read_size - Len(MAGIC_BYTES)
    IN IF file_length < FOOTER_TRAILER_SIZE
       THEN [res |-> Err("Malformed"), reads |-> <<>>]
       ELSE IF io_fail THEN [res |-> Err("Io"), reads |-> rd]
       ELSE IF BufRange(b.file, read_offset, magic_bytes_loc, read_size) # MAGIC_BYTES
       THEN [res |-> Err("Malformed"), reads |-> rd]
       ELSE [res |-> Ok([schema_offset |->
                           from_le_bytes(BufRange(b.file, read_offset,
                                                  magic_bytes_loc - 8, magic_bytes_loc)),
                         footer_offset |->
                           from_le_bytes(BufRange(b.file, read_offset,
                                                  magic_bytes_loc - 16, magic_bytes_loc - 8)),
                         leftovers |-> [offset |-> read_offset, len |-> read_size],
                         leftovers_offset |-> read_offset]),
             reads |-> rd]

\* VortexBatchReaderBuilder::read_footer: the Footer or the error, and the
\* read_at_into requests issued (io_fail: the reader fails the request)
read_footer(b, io_fail) ==
    LET file_length == builder_len(b)
        read_size == Min({FOOTER_READ_SIZE, file_length})
        read_offset == file_length - read_size
        rd == <<[offset |-> read_offset, size |-> read_size]>>
        magic_bytes_loc == read_size - Len(MAGIC_BYTES)
    IN IF file_length < FOOTER_TRAILER_SIZE
       THEN [res |-> Err("Malformed"), reads |-> <<>>]
       ELSE IF io_fail THEN [res |-> Err("Io"), reads |-> rd]
       ELSE IF BufRange(b.file, read_offset, magic_bytes_loc, read_size) # MAGIC_BYTES
       THEN [res |-> Err("Malformed"), reads |-> rd]
       ELSE [res |-> Ok([schema_offset |->
                           from_le_bytes(BufRange(b.file, read_offset,
                                                  magic_bytes_loc - 16, magic_bytes_loc - 8)),
                         footer_offset |->
                           from_le_bytes(BufRange(b.file, read_offset,
                                                  magic_bytes_loc - 8, magic_bytes_loc)),
                         leftovers |-> [offset |-> read_offset, len |-> read_size],
                         leftovers_offset |-> read_offset]),
             reads |-> rd]

\* u64 subtraction then `as usize`: below zero it panics in a build with
\* overflow checks and wraps to a value above every length in one without
sub_u64(a, b, overflow_checks) ==
    IF a >= b THEN Ok(a - b)
    ELSE IF overflow_checks THEN Err("Panic") ELSE Ok(-1)

\* Footer::leftovers_footer_offset
leftovers_footer_offset(self, overflow_checks) ==
    sub_u64(self.footer_offset, self.leftovers_offset, overflow_checks)

\* Footer::leftovers_schema_offset
leftovers_schema_offset(self, overflow_checks) ==
    sub_u64(self.schema_offset, self.leftovers_offset, overflow_checks)

\* leftovers[start..end]: the range, or the panic of a range outside the bytes
\* (a wrapped start, written -1, lies above every end)
bytes_range(self, start, end) ==
    IF ~start.ok THEN start
    ELSE IF ~end.ok THEN end
    ELSE IF start.val < 0 \/ end.val < 0 \/ start.val > end.val
            \/ end.val > self.leftovers.len
    THEN Err("Panic")
    ELSE Ok([begin |-> self.leftovers_offset + start.val,
             end |-> self.leftovers_offset + end.val])

\* Footer::layout: the bytes of the file the footer flatbuffer is parsed from
footer_layout(self, overflow_checks) ==
    bytes_range(self, leftovers_footer_offset(self, overflow_checks),
                sub_u64(self.leftovers.len, FULL_FOOTER_SIZE, overflow_checks))

\* Footer::dtype: the bytes of the file the schema flatbuffer is parsed from
footer_dtype(self, overflow_checks) ==
    bytes_range(self, leftovers_schema_offset(self, overflow_checks),
                leftovers_footer_offset(self, overflow_checks))

\* files: lengths around the trailer size and around the read size
LengthChoices ==
    {0, FOOTER_TRAILER_SIZE - 1, FOOTER_TRAILER_SIZE, FOOTER_TRAILER_SIZE + 1, 1000,
     FOOTER_READ_SIZE, FOOTER_READ_SIZE + 1000}

\* the offsets a trailer may hold
OffsetChoices == {0, 1, 300, 700, 8388000}

MagicChoices == {MAGIC_BYTES, <<70, 88, 84, 86>>, <<86, 84, 88, 0>>, <<0, 84, 88, 70>>}

FooterFileChoices ==
    {[length |-> n,
      tail |-> LET t == to_le_bytes(s, 8) \o to_le_bytes(fo, 8) \o m
               IN IF n >= Len(t) THEN t ELSE SubSeq(t, Len(t) - n + 1, Len(t))] :
       n \in LengthChoices, s \in OffsetChoices, fo \in OffsetChoices, m \in MagicChoices}

FooterNotCalled == [op |-> "none", res |-> Err("NotCalled")]

\* the builder is made for a file, with or without with_length
FooterIdle ==
    /\ builder = [file |-> [length |-> 0, tail |-> <<>>], len |-> NoneV]
    /\ footerOut = FooterNotCalled
    /\ footerReads = <<>>

FooterInit ==
    /\ \E f \in FooterFileChoices :
         \E l \in {NoneV, Some(f.length)} : builder = [file |-> f, len |-> l]
    /\ footerOut = FooterNotCalled
    /\ footerReads = <<>>

ReadFooter ==
    /\ footerOut.op = "none"
    /\ \E io_fail \in BOOLEAN :
         \E r \in {read_footer(builder, io_fail)} :
            /\ footerOut' = [op |-> "read_footer", res |-> r.res]
            /\ footerReads' = footerReads \o r.reads
    /\ UNCHANGED <<builder, streamVars, roaringVars, alpVars, takeVars>>

\* build goes on with footer.layout() and footer.dtype()
FooterLayout ==
    /\ footerOut.op = "read_footer" /\ footerOut.res.ok
    /\ \E overflow_checks \in BOOLEAN :
         footerOut' = [op |-> "layout", footer |-> footerOut.res.val,
                       res |-> footer_layout(footerOut.res.val, overflow_checks)]
    /\ UNCHANGED <<builder, footerReads, streamVars, roaringVars, alpVars, takeVars>>

FooterDtype ==
    /\ footerOut.op = "layout" /\ footerOut.res.ok
    /\ \E overflow_checks \in BOOLEAN :
         footerOut' = [op |-> "dtype", footer |-> footerOut.footer,
                       res |-> footer_dtype(footerOut.footer, overflow_checks)]
    /\ UNCHANGED <<builder, footerReads, streamVars, roaringVars, alpVars, takeVars>>

FooterNext == ReadFooter \/ FooterLayout \/ FooterDtype

KernelsIdle == AlpIdle /\ TakeIdle /\ FooterIdle

\* ------------------------------------------------------- stream: Init, Next
NumbersAbove2 == [col |-> 1, op |-> ">", lit |-> 2]

StringsNotFoo == [col |-> 0, op |-> "!=", lit |-> "foo"]

FilterChoices ==
    {<<>>, <<NumbersAbove2>>, <<NumbersAbove2, StringsNotFoo>>,
     <<StringsNotFoo, NumbersAbove2>>}

ProjChoices == {NoneV, Some(<<0>>), Some(<<1>>), Some(<<1, 0>>)}

\* files: the chunk lengths of the longest column, and each column's chunk count
FileChoices ==
    {f \in [lens : UNION {[1..m -> ChunkLenChoices] : m \in 0..MaxChunks},
            n : [Cols -> 0..MaxChunks]] :
        /\ \A c \in Cols : f.n[c] <= Len(f.lens)
        /\ \E c \in Cols : f.n[c] = Len(f.lens)}

TakeChoices(total_rows) ==
    UNION {[1..m -> 0..(total_rows - 1)] : m \in 0..MaxTake}

\* VortexBatchReaderBuilder::build on file f with the builder's options
Build(f, t, rf, p) ==
    /\ file = f
    /\ layout = [c \in Cols |-> ChunkedChildren(c, f.n[c])]
    /\ metadata_layouts = NoneV
    /\ state = StateInit
    /\ reader = Some("R")
    /\ current_offset = 0
    /\ take_indices = t
    /\ row_filter = rf
    /\ projection = p
    /\ ret = Item("NotPolled")
    /\ out = <<>>
    /\ reads = <<>>
    /\ panicked = FALSE

StreamIdle == Build([lens |-> <<>>, n |-> [c \in Cols |-> 0]], NoneV, <<>>, NoneV)

Init ==
    /\ \E f \in FileChoices, rf \in FilterChoices, p \in ProjChoices :
         Build(f, NoneV, rf, p)
    /\ RoaringIdle
    /\ KernelsIdle

\* the row filters and projections tried together with take indices
TakeOptionChoices ==
    {<<(<<>>), NoneV>>,
     <<(<<NumbersAbove2>>), NoneV>>,
     <<(<<NumbersAbove2, StringsNotFoo>>), Some(<<1, 0>>)>>,
     <<(<<StringsNotFoo, NumbersAbove2>>), Some(<<0>>)>>}

\* files whose columns all hold every chunk, read with or without take indices
TakeInit ==
    /\ \E f \in {g \in FileChoices : \A c \in Cols : g.n[c] = Len(g.lens)} :
         \E t \in {NoneV} \cup
                    {Some(i) : i \in TakeChoices(SumLens(f.lens, Len(f.lens)))},
            o \in TakeOptionChoices :
              Build(f, t, o[1], o[2])
    /\ RoaringIdle
    /\ KernelsIdle

RoaringInit == StreamIdle /\ RoaringIdle /\ KernelsIdle

\* nothing built, encoded or called yet
KernelInit == StreamIdle /\ RoaringIdle /\ KernelsIdle

FooterSpecInit == StreamIdle /\ RoaringIdle /\ AlpIdle /\ TakeIdle /\ FooterInit

\* one call of poll_next, with what the reader and the decoder do during it
Poll ==
    /\ ~panicked
    /\ Len(out) < MaxPolls
    /\ \E io \in IoChoices :
         \E r \in {poll_next(Self, io, <<>>)} :
            /\ r.valid
            /\ layout' = r.s.layout
            /\ metadata_layouts' = r.s.metadata_layouts
            /\ state' = r.s.state
            /\ reader' = r.s.reader
            /\ current_offset' = r.s.current_offset
            /\ ret' = r.ret
            /\ out' = IF r.ret.kind = "Pending" THEN out ELSE Append(out, r.ret)
            /\ reads' = reads \o [k \in 1..Len(r.reads) |->
                                     [layout |-> r.reads[k], at |-> Len(out)]]
            /\ panicked' = (r.ret.kind = "Panic")
    /\ UNCHANGED <<file, take_indices, row_filter, projection, roaringVars, kernelVars>>

Next == Poll

RoaringNext == RbNew \/ RbEncode \/ RbScalarAt \/ RbSlice \/ RbKeepSlice \/ RbStats

Spec == Init /\ [][Next]_vars

TakeSpec == TakeInit /\ [][Next]_vars

RoaringSpec == RoaringInit /\ [][RoaringNext]_vars

AlpSpec == KernelInit /\ [][AlpNext]_vars

TakeKernelSpec == KernelInit /\ [][TakeKernelNext]_vars

FooterSpec == FooterSpecInit /\ [][FooterNext]_vars

\* ================================================================ claims
\* ------------------------------------------------------- stream: helpers
Items == 1..Len(out)

\* no item before the i-th is an error or a panic
NoErrBefore(i) == \A k \in 1..(i - 1) : out[k].kind \in {"Batch", "Eos"}

\* the data children of chunk j, one per column, in column order
ChunkLayouts(j) == [c \in Cols |-> FlatLayout(c, j)]

\* the rows the writer stored in chunk j, as a struct array of all columns
ExpectedChunk(j) ==
    StructArray(Names,
                [c \in Cols |-> [r \in 1..file.lens[j] |->
                                   CellValue(c, SumLens(file.lens, j - 1) + r - 1)]])

\* whether row k of a struct array satisfies a predicate
PredHolds(pred, arr, k) ==
    LET v == arr.fields[pred.col + 1][k]
    IN CASE pred.op = ">" -> v > pred.lit
         [] pred.op = "=" -> v = pred.lit
         [] pred.op = "!=" -> v # pred.lit

IsAscending(t) == \A k \in 1..(Len(t) - 1) : t[k] <= t[k + 1]

BatchItems == {i \in Items : out[i].kind = "Batch"}

RECURSIVE SumTaken(_)
\* rows the first i items hold after take
SumTaken(i) == IF i = 0 THEN 0 ELSE SumTaken(i - 1) + out[i].taken.len

\* C1: after the stream has yielded an error, every later item is
\* end-of-stream (never a second error, a batch, or a panic from polling the
\* completed read future again).
C1_ErrorThenExhausted ==
    \A i \in Items : out[i].kind = "Err" =>
        \A j \in (i + 1)..Len(out) : out[j].kind = "Eos"

\* C2: with no take, filter or projection, on a file whose columns all hold k
\* data chunks, the i-th item (while nothing failed) is for i <= k the batch
\* of the i-th data child of every column in column order, and end-of-stream
\* after it; the metadata children are set aside by the first poll, once, and
\* are never read or decoded.
C2_BatchesInChunkOrder ==
    (/\ take_indices = NoneV /\ row_filter = <<>> /\ projection = NoneV
     /\ \A c \in Cols : file.n[c] = Len(file.lens))
    => /\ \A i \in Items : NoErrBefore(i) =>
            IF i <= Len(file.lens)
            THEN \/ out[i].kind = "Err"
                 \/ /\ out[i].kind = "Batch"
                    /\ out[i].batch = ExpectedChunk(i)
                    /\ out[i].srcs = ChunkLayouts(i)
            ELSE out[i].kind = "Eos"
       /\ IF ret.kind = "NotPolled"
          THEN /\ metadata_layouts = NoneV
               /\ layout = [c \in Cols |-> ChunkedChildren(c, file.n[c])]
          ELSE /\ metadata_layouts = Some(ChunkLayouts(0))
               /\ \A c \in Cols : \A k \in 1..Len(layout[c]) : layout[c][k].child >= 1
       /\ \A k \in 1..Len(reads) : reads[k].layout.child >= 1
       /\ \A i \in Items : \A k \in 1..Len(out[i].srcs) : out[i].srcs[k].child >= 1

C2_Witness ==
    /\ take_indices = NoneV /\ row_filter = <<>> /\ projection = NoneV
    /\ \A c \in Cols : file.n[c] = 2
    /\ Len(out) = 3
    /\ out[1].kind = "Batch" /\ out[2].kind = "Batch" /\ out[3].kind = "Eos"

\* C3: the stream yields a batch only while every column has a next data
\* layout, and the batch then holds every column; as soon as one column is
\* exhausted it yields end-of-stream (also when the columns hold different
\* numbers of chunks), and after an end-of-stream every item is end-of-stream
\* and no read is issued.
C3_EndsWithoutPartialBatch ==
    LET m == Min({file.n[c] : c \in Cols})
    IN /\ \A i \in Items : NoErrBefore(i) =>
            IF i <= m
            THEN \/ out[i].kind = "Err"
                 \/ /\ out[i].kind = "Batch"
                    /\ out[i].decoded.names = Names
                    /\ out[i].srcs = ChunkLayouts(i)
            ELSE out[i].kind = "Eos"
       /\ \A i \in Items : out[i].kind = "Eos" =>
            \A j \in (i + 1)..Len(out) : out[j].kind = "Eos"
       /\ \A k \in 1..Len(reads) :
            \A i \in 1..reads[k].at : out[i].kind # "Eos"

C3_Witness ==
    /\ file.n[1] = 2 /\ file.n[2] = 1
    /\ Len(out) = 3
    /\ out[1].kind = "Batch" /\ out[2].kind = "Eos" /\ out[3].kind = "Eos"

\* C4: every batch is project(filter(take(decoded chunk))): take comes first
\* (without take indices the decoded chunk is used as it is), every predicate
\* is evaluated in list order on the taken batch with all columns present, a
\* row is kept iff all predicates hold for it, and the projection selects the
\* columns of the filtered batch.
C4_TakeFilterProject ==
    \A i \in BatchItems :
        LET it == out[i]
            t == it.taken
            keep == SelectIdx([k \in 1..t.len |->
                                 \A p \in 1..Len(row_filter) :
                                    PredHolds(row_filter[p], t, k)], t.len)
            cols == IF projection = NoneV THEN [c \in Cols |-> c - 1]
                    ELSE Unwrap(projection)
        IN /\ take_indices = NoneV => t = it.decoded
           /\ t.names = Names
           /\ \A k \in 1..t.len : \E r \in 1..it.decoded.len :
                \A c \in Cols : t.fields[c][k] = it.decoded.fields[c][r]
           /\ it.evals = [k \in 1..Len(row_filter) |->
                            [pred |-> row_filter[k], names |-> Names, len |-> t.len]]
           /\ it.batch.names = [k \in 1..Len(cols) |-> Names[cols[k] + 1]]
           /\ it.batch.fields = [k \in 1..Len(cols) |->
                                   [r \in 1..Len(keep) |-> t.fields[cols[k] + 1][keep[r]]]]
           /\ it.batch.len = Len(keep)

C4_Witness ==
    /\ take_indices # NoneV /\ Len(row_filter) = 2 /\ projection # NoneV
    /\ \E i \in BatchItems :
         /\ out[i].taken.len = 2
         /\ out[i].batch.len = 1
         /\ out[i].taken # out[i].decoded

\* C5: for any take indices within [0, total_rows), sorted or not, unique or
\* not, the stream fails with no take error and, once it has ended, its
\* batches hold exactly the rows at those indices, one per occurrence.
C5_AnyIndicesServed ==
    (take_indices # NoneV /\ row_filter = <<>> /\ projection = NoneV)
    => /\ \A i \in Items : out[i].kind = "Err" => out[i].err \in {"Io", "Decode"}
       /\ (\E i \in Items : out[i].kind = "Eos" /\ NoErrBefore(i))
          => \A g \in 0..(SumLens(file.lens, Len(file.lens)) - 1) :
                Cardinality({<<i, k>> \in BatchItems \X (1..MaxTake) :
                               /\ k <= out[i].batch.len
                               /\ out[i].batch.fields[2][k] = CellValue(2, g)})
                  = Cardinality({k \in 1..Len(Unwrap(take_indices)) :
                                   Unwrap(take_indices)[k] = g})

C7_PositionsBelowLength ==
    rb # NoneV =>
        /\ \A p \in Unwrap(rb).bitmap : p < Unwrap(rb).length
        /\ rb_dtype(Unwrap(rb)) = [type |-> "Bool", nullability |-> "NonNullable"]

\* C8: slice(a, b) of an array of length n returns, for a <= b <= n, an array
\* of length b - a whose position p is set iff a + p is set in the original,
\* with an empty stats set, and leaves the original as it was; for a > b or
\* b > n it returns an out-of-bounds error.
C8_SliceContract ==
    rbOp.op = "slice" =>
        LET self == Unwrap(rbOp.self)
            a == rbOp.a
            b == rbOp.b
        IN /\ rb = rbOp.self
           /\ IF a <= b /\ b <= self.length
              THEN /\ rbOut.ok
                   /\ rbOut.val.length = b - a
                   /\ rbOut.val.bitmap = {p \in 0..(b - a - 1) : (a + p) \in self.bitmap}
                   /\ rbOut.val.stats = {}
              ELSE rbOut = Err("OutOfBounds")

C8_Witness ==
    /\ rbOp.op = "slice" /\ rbOut.ok
    /\ rbOp.a >= 1
    /\ rbOut.val.bitmap # {}
    /\ Unwrap(rb).stats # {}
    /\ Cardinality(rbOut.val.bitmap) < Cardinality(Unwrap(rb).bitmap)

\* C9: a slice [k, l) of the slice [i, j) of an array has the length and the
\* set positions of the slice [i + k, i + l) of that array.
C9_SliceComposition ==
    (rbFrom # NoneV /\ rbOp.op = "slice" /\ rbOut.ok) =>
        LET p == Unwrap(rbFrom)
            direct == rb_slice(p.self, p.a + rbOp.a, p.a + rbOp.b)
        IN /\ direct.ok
           /\ direct.val.length = rbOut.val.length
           /\ direct.val.bitmap = rbOut.val.bitmap

C9_Witness ==
    /\ rbFrom # NoneV /\ rbOp.op = "slice" /\ rbOut.ok
    /\ Unwrap(rbFrom).a >= 1
    /\ rbOp.a >= 1
    /\ rbOut.val.bitmap # {}

\* C10: encode of a Bool array x has the length of x and a bitmap listing, in
\* ascending order, the positions where x is true, and scalar_at of it gives
\* x[i] at every i below the length; encode of another array is
\* InvalidEncoding.
C10_EncodeContract ==
    rbOp.op = "encode" =>
        LET x == Unwrap(rbOp.input)
            n == Len(x.values)
            trues == SelectIdx(x.values, n)
        IN IF x.kind = "Bool"
           THEN /\ rbOut.ok
                /\ rb = Some(rbOut.val)
                /\ rbOut.val.length = n
                /\ SortedSeq(rbOut.val.bitmap) = [k \in 1..Len(trues) |-> trues[k] - 1]
                /\ \A i \in 0..(n - 1) : rb_scalar_at(rbOut.val, i) = Ok(x.values[i + 1])
           ELSE rbOut = Err("InvalidEncoding")

C10_Witness ==
    /\ rbOp.op = "encode"
    /\ Unwrap(rbOp.input) = [kind |-> "Bool", values |-> <<TRUE, FALSE, TRUE>>]
    /\ rbOut.ok

\* -------------------------------------------------------------------- ALP
\* the positions of x whose value is an exception under the exponents exp
ExceptionPositions(x, exp) ==
    {p \in 0..(Len(x.values) - 1) : IsException(x.values[p + 1], exp)}

\* C11: the ALP array encoded from a float array x has no patches when x has
\* no exception under the chosen exponents; otherwise its patches are a sparse
\* array of the encoded array's length whose indices are exactly the exception
\* positions, in ascending order, and whose value at each index is the input
\* float of that position.
C11_PatchesHoldOriginals ==
    (alpOp.op = "encode" /\ alpOut.ok) =>
        LET x == Unwrap(alpOp.input)
            a == alpOut.val
            exc == ExceptionPositions(x, a.exponents)
        IN IF exc = {} THEN a.patches = NoneV
           ELSE /\ a.patches # NoneV
                /\ Unwrap(a.patches).kind = "Sparse"
                /\ Unwrap(a.patches).len = Len(a.encoded.values)
                /\ Unwrap(a.patches).indices.values = IntSeq(SortedSeq(exc))
                /\ Unwrap(a.patches).values.values =
                      [k \in 1..Cardinality(exc) |-> x.values[SortedSeq(exc)[k] + 1]]

\* C12: decoding the ALP array encoded from a float array x (the encoded
\* integers scaled by the stored exponents, then the patches laid over them by
\* index) gives x: the same type, the same values, the same validity.
C12_RoundTrip ==
    alpOp.op = "decode" => (alpOut.ok /\ alpOut.val = Unwrap(alpIn))

\* C13: try_new succeeds exactly when the encoded child is an integer array of
\* width 32 or 64; the array is then a float array of that width and of the
\* child's nullability, and the patches it holds, if any, are a sparse array of
\* floats; for any other encoded child it returns InvalidDType and no array.
C13_TryNewChecksChildren ==
    alpOp.op = "try_new" =>
        LET in == Unwrap(alpOp.input)
            d == array_dtype(in.encoded)
        IN IF d.type = "Int" /\ d.width \in {32, 64}
           THEN /\ alpOut.ok
                /\ alp = Some(alpOut.val)
                /\ alpOut.val.dtype =
                      [type |-> "Float", width |-> d.width, nullable |-> d.nullable]
                /\ alpOut.val.patches # NoneV =>
                      /\ Unwrap(alpOut.val.patches).kind = "Sparse"
                      /\ array_dtype(Unwrap(alpOut.val.patches)).type = "Float"
           ELSE alpOut = Err("InvalidDType") /\ alp = NoneV

\* C14: slice(a, b) of an ALP array returns, when both children can be sliced
\* by [a, b), the ALP array of the sliced encoded child (its values and
\* validity at a..b-1), of the patches sliced by [a, b) (none when the array has
\* none) and of the same exponents and dtype; otherwise it returns the error;
\* the array that was sliced is left as it was.
C14_SliceChildren ==
    alpOp.op = "slice" =>
        LET self == Unwrap(alpOp.self)
            a == alpOp.a
            b == alpOp.b
            e == self.encoded
            fits == /\ a <= b /\ b <= array_len(e)
                    /\ self.patches # NoneV => b <= array_len(Unwrap(self.patches))
        IN /\ alp = alpOp.self
           /\ IF fits
              THEN /\ alpOut.ok
                   /\ alpOut.val.encoded.ptype = e.ptype
                   /\ alpOut.val.encoded.values = SubSeq(e.values, a + 1, b)
                   /\ alpOut.val.encoded.validity =
                        (IF e.validity = NoneV THEN NoneV
                         ELSE Some(SubSeq(Unwrap(e.validity), a + 1, b)))
                   /\ alpOut.val.patches =
                        (IF self.patches = NoneV THEN NoneV
                         ELSE Some(array_slice(Unwrap(self.patches), a, b).val))
                   /\ alpOut.val.exponents = self.exponents
                   /\ alpOut.val.dtype = self.dtype
              ELSE alpOut = Err("OutOfBounds")

C14_Witness ==
    /\ alpOp.op = "slice" /\ alpOut.ok
    /\ alpOp.a = 1 /\ alpOp.b = 2
    /\ Unwrap(alpOp.self).patches # NoneV
    /\ alpOut.val.patches # NoneV
    /\ Unwrap(alpOut.val.patches).kind = "Sparse"
    /\ Unwrap(alpOut.val.patches).indices.values = IntSeq(<<0>>)
    /\ Unwrap(alpOut.val.patches) # Unwrap(Unwrap(alpOp.self).patches)

\* C15: compressing a float array with an ALP array as the like hint runs no
\* exponent search: the result has the hint's exponents, and the hint's encoded
\* child and patches are the hints of the compression of the new encoded child
\* and of the new patches; with no hint, or a hint of another encoding, the
\* exponents are those the full search finds and the children get no hint.
C15_LikeReusesExponents ==
    (alpOp.op = "compress" /\ alpOut.res.ok) =>
        LET x == Unwrap(alpOp.input)
            r == alpOut.res.val
            n == Len(alpOut.calls)
        IN /\ alpOut.calls[1].array = r.encoded
           /\ n = (IF r.patches = NoneV THEN 1 ELSE 2)
           /\ n = 2 => alpOut.calls[2].array = Unwrap(r.patches)
           /\ IF alpOp.like # NoneV /\ Unwrap(alpOp.like).kind = "ALP"
              THEN /\ alpOut.codec = "encode_with"
                   /\ r.exponents = Unwrap(alpOp.like).exponents
                   /\ alpOut.calls[1].like = Some(Unwrap(alpOp.like).encoded)
                   /\ n = 2 => alpOut.calls[2].like = Unwrap(alpOp.like).patches
              ELSE /\ alpOut.codec = "encode"
                   /\ r.exponents = find_exponents(x.values, x.ptype)
                   /\ \A k \in 1..n : alpOut.calls[k].like = NoneV

C15_Witness ==
    /\ alpOp.op = "compress" /\ alpOut.res.ok
    /\ alpOp.like # NoneV /\ Unwrap(alpOp.like).kind = "ALP"
    /\ Unwrap(alpOp.like).patches # NoneV
    /\ alpOut.res.val.patches # NoneV
    /\ alpOut.res.val.exponents = [e |-> 0, f |-> 0]
    /\ find_exponents(Unwrap(alpOp.input).values, Unwrap(alpOp.input).ptype)
         # [e |-> 0, f |-> 0]

\* ------------------------------------------------------------ compute::take
\* C16: take returns an error whenever the indices are not of an integer type
\* or are nullable, whatever the receiver's encoding, and then neither a take
\* kernel nor a canonicalization has run.
C16_IndicesChecked ==
    (/\ takeOp.op = "take"
     /\ \/ Unwrap(takeOp.indices).dtype.type # "Int"
        \/ Unwrap(takeOp.indices).dtype.nullable)
    => /\ ~takeOut.res.ok
       /\ takeOut.res.val = "InvalidArgument"
       /\ takeOut.steps = <<>>

C16_Witness ==
    /\ takeOp.op = "take"
    /\ Unwrap(takeOp.indices).dtype = [type |-> "Int", nullable |-> TRUE]
    /\ Unwrap(takeOp.array).has_take
    /\ Unwrap(takeOp.array).kernel.ok
    /\ Unwrap(takeOp.array).encoding = "vortex.alp"
    /\ ~takeOut.res.ok

\* C17: for non-nullable integer indices, a receiver whose encoding has a take
\* kernel is taken by that kernel and is not canonicalized; any other receiver
\* is canonicalized exactly once, and then a failed canonicalization is the
\* error returned, a canonical form with a take kernel is taken by it, and only
\* a canonical form without one gives NotImplemented.
C17_KernelThenCanonical ==
    (/\ takeOp.op = "take"
     /\ Unwrap(takeOp.indices).dtype = [type |-> "Int", nullable |-> FALSE])
    => LET a == Unwrap(takeOp.array)
           canon == {k \in 1..Len(takeOut.steps) :
                       takeOut.steps[k].step = "into_canonical"}
           takes == {k \in 1..Len(takeOut.steps) : takeOut.steps[k].step = "take"}
       IN /\ Cardinality(takes) <= 1
          /\ IF a.has_take
             THEN /\ canon = {}
                  /\ takeOut.steps = <<[step |-> "take", on |-> a.encoding]>>
                  /\ takeOut.res = a.kernel
             ELSE /\ canon = {1}
                  /\ takeOut.steps[1].on = a.encoding
                  /\ IF ~a.canonical.ok
                     THEN takes = {} /\ takeOut.res = a.canonical
                     ELSE IF a.canonical.val.has_take
                     THEN /\ takes = {2}
                          /\ takeOut.steps[2].on = a.canonical.val.encoding
                          /\ takeOut.res = a.canonical.val.kernel
                     ELSE /\ takes = {}
                          /\ ~takeOut.res.ok /\ takeOut.res.val = "NotImplemented"
          /\ (~takeOut.res.ok /\ takeOut.res.val = "NotImplemented")
             => (~a.has_take /\ a.canonical.ok /\ ~a.canonical.val.has_take)

C17_Witness ==
    /\ takeOp.op = "take"
    /\ Unwrap(takeOp.indices).dtype = [type |-> "Int", nullable |-> FALSE]
    /\ ~Unwrap(takeOp.array).has_take
    /\ Unwrap(takeOp.array).encoding = "roaring.bool"
    /\ ~Unwrap(takeOp.array).kernel.ok
    /\ takeOut.res.ok
    /\ Len(takeOut.steps) = 2

\* ------------------------------------------------------------- read_footer
\* whether the file ends with the magic bytes
EndsWithMagic(f) ==
    /\ Len(f.tail) >= Len(MAGIC_BYTES)
    /\ SubSeq(f.tail, Len(f.tail) - Len(MAGIC_BYTES) + 1, Len(f.tail)) = MAGIC_BYTES

\* C18: read_footer of a file shorter than the 20-byte trailer fails as
\* malformed without any read; of a longer file that does not end with the
\* magic bytes it fails (as malformed once the read has succeeded); otherwise,
\* unless the read fails, it returns a Footer whose footer_offset is the
\* little-endian u64 in the 8 bytes before the magic and whose schema_offset is
\* the little-endian u64 in the 8 bytes before those.
C18_TrailerParsed ==
    footerOut.op = "read_footer" =>
        LET f == builder.file
        IN IF f.length < 20
           THEN /\ ~footerOut.res.ok /\ footerOut.res.val = "Malformed"
                /\ footerReads = <<>>
           ELSE /\ Len(footerReads) = 1
                /\ ~footerOut.res.ok => footerOut.res.val \in {"Malformed", "Io"}
                /\ ~EndsWithMagic(f) => ~footerOut.res.ok
                /\ (~footerOut.res.ok /\ footerOut.res.val = "Malformed")
                      => ~EndsWithMagic(f)
                /\ footerOut.res.ok =>
                      /\ to_le_bytes(footerOut.res.val.footer_offset, 8)
                           = SubSeq(f.tail, 9, 16)
                      /\ to_le_bytes(footerOut.res.val.schema_offset, 8)
                           = SubSeq(f.tail, 1, 8)

C18_Witness ==
    /\ footerOut.op = "read_footer" /\ footerOut.res.ok
    /\ builder.file.length = 1000
    /\ footerOut.res.val.schema_offset = 300
    /\ footerOut.res.val.footer_offset = 700

\* C19: opening a file of at least 20 bytes first reads min(8 MiB, length)
\* bytes ending at the last byte, in one request; and once the schema and the
\* footer of a well-formed file (schema_offset <= footer_offset <= length - 20)
\* are parsed, the bytes from schema_offset on lie in a read that was issued:
\* when the first read does not reach back to them, a second one was issued.
C19_SecondReadWhenNeeded ==
    LET n == builder.file.length
        size == IF n < FOOTER_READ_SIZE THEN n ELSE FOOTER_READ_SIZE
    IN (footerOut.op # "none" /\ n >= 20) =>
          /\ Len(footerReads) \in {1, 2}
          /\ footerReads[1] = [offset |-> n - size, size |-> size]
          /\ (/\ footerOut.op \in {"layout", "dtype"}
              /\ footerOut.footer.schema_offset <= footerOut.footer.footer_offset
              /\ footerOut.footer.footer_offset <= n - 20)
             => /\ \E k \in 1..Len(footerReads) :
                     /\ footerReads[k].offset <= footerOut.footer.schema_offset
                     /\ footerReads[k].offset + footerReads[k].size >= n - 20
                /\ Len(footerReads) = 2 => footerOut.footer.schema_offset < n - size

\* ------------------------------------------------- stream: suspension points
\* C20: a poll returns Pending only with the stream in Reading and its read
\* future polled and still incomplete; the stream never rests in Decoding (a
\* poll that leaves Init goes on through Decoding to Reading and polls the
\* reads); and a poll that returns a batch has put the reader back and left the
\* stream in Init.
C20_SuspendsOnlyInReading ==
    /\ ret.kind = "Pending" =>
          /\ state.tag = "Reading"
          /\ Unwrap(state.f).issued >= 1
          /\ ~Unwrap(state.f).completed
          /\ reader = NoneV
    /\ state.tag # "Decoding"
    /\ ret.kind = "Batch" => (state = StateInit /\ reader = Some("R"))
    /\ (state.tag = "Init" /\ ret.kind # "NotPolled") => ret.kind \in {"Batch", "Eos"}
    /\ (state.tag = "Reading" /\ ret.kind # "Pending") => ret.kind \in {"Err", "Panic"}

C20_Witness ==
    /\ ret.kind = "Pending"
    /\ Len(out) = 1 /\ out[1].kind = "Batch"
    /\ Unwrap(state.f).issued = 2 /\ Unwrap(state.f).done = 1
    /\ \E k \in 1..Len(reads) : reads[k].at = 0
    /\ \E k \in 1..Len(reads) : reads[k].at = 1

\* ------------------------------------------------- stream: reads per batch
\* the reads issued while i items had been yielded, in the order of issue
ReadsAt(i) ==
    LET sel == SelectSeq(reads, LAMBDA r : r.at = i)
    IN [k \in 1..Len(sel) |-> sel[k].layout]

\* C21: for every emitted batch the reader was asked for exactly one read per
\* column of the file, at the begin offset and with the size of that column's
\* flat layout of the batch's chunk, in column order; the reads of chunk j + 1
\* are issued only after the batch of chunk j was emitted (no prefetch); the
\* one read future awaits at most one read at a time and owns the reader.
C21_OneReadPerColumn ==
    /\ \A i \in BatchItems :
          LET rd == ReadsAt(i - 1)
          IN /\ Len(rd) = Len(Names)
             /\ \A c \in Cols :
                   /\ rd[c].col = c
                   /\ rd[c].child = i
                   /\ rd[c].range.begin = FlatLayout(c, i).range.begin
                   /\ rd[c].range.end - rd[c].range.begin
                        = FlatLayout(c, i).range.end - FlatLayout(c, i).range.begin
    /\ \A k \in 1..Len(reads) :
          /\ reads[k].layout.child = reads[k].at + 1
          /\ \A i \in 1..reads[k].at : out[i].kind = "Batch"
    /\ \A i \in 0..Len(out) :
          LET rd == ReadsAt(i)
          IN /\ Len(rd) <= Len(Names)
             /\ \A c \in 1..Len(rd) : rd[c] = FlatLayout(c, i + 1)
    /\ state.tag = "Reading" =>
          LET f == Unwrap(state.f)
          IN /\ f.issued - f.done <= 1
             /\ ~f.completed => reader = NoneV

C21_Witness ==
    /\ Len(out) = 2 /\ out[1].kind = "Batch" /\ out[2].kind = "Batch"
    /\ Len(reads) = 2 * Len(Names)
    /\ file.n[1] = 2 /\ file.n[2] = 2

\* ------------------------------------------------- read_footer: the offsets
\* C22: the Footer that read_footer returns for a file it accepts has
\* leftovers_offset <= schema_offset <= footer_offset <= file length - 20, so
\* that Footer::layout and Footer::dtype never underflow or panic and the byte
\* ranges they parse lie inside the bytes that were read.
C22_OffsetsWellFormed ==
    LET n == builder_len(builder)
    IN /\ (footerOut.op = "read_footer" /\ footerOut.res.ok) =>
            LET ft == footerOut.res.val
            IN /\ ft.leftovers_offset <= ft.schema_offset
               /\ ft.schema_offset <= ft.footer_offset
               /\ ft.footer_offset <= n - FULL_FOOTER_SIZE
       /\ footerOut.op \in {"layout", "dtype"} =>
            /\ footerOut.res.ok
            /\ \E k \in 1..Len(footerReads) :
                  /\ footerReads[k].offset <= footerOut.res.val.begin
                  /\ footerOut.res.val.begin <= footerOut.res.val.end
                  /\ footerOut.res.val.end
                       <= footerReads[k].offset + footerReads[k].size

====
